---- MODULE Spec2Model ----
(***************************************************************************)
(* Model of the archiver of gtfs-scraper (src/archive.go) together with    *)
(* the store it reads (vehicle_positions table, src/unnamed/part_001).     *)
(*                                                                         *)
(* Time.  Store timestamps are Unix seconds.  A period (the time.Time that *)
(* archivePartitions iterates over) is always the first instant of a       *)
(* calendar month in UTC; it is represented by its month index, the number *)
(* of months since 1970-01.  The zero time.Time (0001-01-01) has month     *)
(* index ZeroMonth.                                                        *)
(***************************************************************************)
EXTENDS Integers, Sequences, FiniteSets

\* ---------------------------------------------------------------- bounds
\* largest number of rows the store holds
MaxStoreRows == 2
\* number of archive runs (invocations of the archive command)
MaxRuns == 2
\* number of failures of the environment in a behaviour (a termination of
\* the process, an error of the store, the file system or the parquet
\* library, a failed cursor, a wrong row count)
MaxFaults == 1

\* ------------------------------------------------------------- input sets
\* trip ids, in the collation order of the store
TripOrder == <<"T1", "T2">>
Trips == {TripOrder[i] : i \in 1..Len(TripOrder)}
\* vehicle ids; "" is the id of a feed entity without vehicle descriptor
Vehicles == {"", "V1", "V2"}
\* 1970-01-01 00:00:00 (no timestamp set), two instants of 1970-01, the
\* first instant of 1970-02
Timestamps == {0, 1, 2, 2678400}

\* the rows a feed can bring.  At the first instant of 1970-01: trip T1 of
\* every vehicle, and trip T2 of vehicle V1 (a second row of the same vehicle
\* and timestamp).  At the other instants: trip T1 of vehicle V1.
Row == {r \in [trip : Trips, vehicle : Vehicles, ts : Timestamps] :
          \/ r.trip = "T1" /\ r.ts = 1
          \/ r.trip = "T2" /\ r.ts = 1 /\ r.vehicle = "V1"
          \/ r.trip = "T1" /\ r.vehicle = "V1"}

\* --------------------------------------------------------------- calendar
\* month index of time.Time{} : 0001-01 is 1969 years before 1970-01
ZeroMonth == 0 - 23628
\* the periods an archive run of the model can visit
Periods == {ZeroMonth} \cup (0..1)

\* period.Year() and int(period.Month())
Year(p) == 1970 + (p \div 12)
Month(p) == (p % 12) + 1

\* period.Unix().  The months of 1970 have 31, 28, 31 and 30 days.  The Unix
\* time of year 1 (-62135596800) is outside the 32-bit integers of TLC; it
\* is represented by an instant below every timestamp of the store, which
\* keeps its order relative to them.
Unix(p) ==
  CASE p = 0 -> 0
    [] p = 1 -> 2678400
    [] p = 2 -> 5097600
    [] p = 3 -> 7776000
    [] p = 4 -> 10368000
    [] OTHER -> (0 - 2000000000) + (p - ZeroMonth) * 2678400

\* period.AddDate(0, 1, 0) on the first instant of a month
AddMonth(p) == p + 1

\* strftime('%Y-%m', t, 'unixepoch') : the text is modelled by the pair
\* <<year, month>>
strftimeYM(t) ==
  LET p == CHOOSE q \in 0..3 : Unix(q) <= t /\ t < Unix(q + 1)
  IN  <<Year(p), Month(p)>>

\* time.Parse(yearMonthLayout, s)
ParseYM(s) == (s[1] - 1970) * 12 + (s[2] - 1)

\* ------------------------------------------------------------------ store
\* PRIMARY KEY(timestamp, trip_id) with INSERT ... ON CONFLICT DO NOTHING
insertRow(st, r) ==
  IF \E q \in st : q.ts = r.ts /\ q.trip = r.trip THEN st ELSE st \cup {r}

TripRank(t) == CHOOSE i \in 1..Len(TripOrder) : TripOrder[i] = t

\* order of the primary-key index (timestamp, trip_id) that serves a
\* range query on timestamp
KeyLess(a, b) ==
  \/ a.ts < b.ts
  \/ a.ts = b.ts /\ TripRank(a.trip) < TripRank(b.trip)

RECURSIVE InKeyOrder(_)
InKeyOrder(S) ==
  IF S = {} THEN <<>>
  ELSE LET m == CHOOSE x \in S : \A y \in S \ {x} : KeyLess(x, y)
       IN  <<m>> \o InKeyOrder(S \ {m})

\* archiveRangeQuery : MIN and MAX of the timestamps > 0, formatted as
\* year-month, '' (the empty tuple) when there is no such row
archiveRangeQuery(st) ==
  LET valid == {r.ts : r \in {q \in st : q.ts > 0}}
  IN  IF valid = {} THEN [min_ym |-> <<>>, max_ym |-> <<>>]
      ELSE [min_ym |-> strftimeYM(CHOOSE t \in valid : \A u \in valid : t <= u),
            max_ym |-> strftimeYM(CHOOSE t \in valid : \A u \in valid : t >= u)]

\* findArchiveRange : the named results keep their zero values (time.Time{}
\* and a nil error) on the early return for an empty answer
findArchiveRange(st) ==
  LET mm == archiveRangeQuery(st)
  IN  IF mm.min_ym = <<>> \/ mm.max_ym = <<>>
      THEN [startMonth |-> ZeroMonth, endMonth |-> ZeroMonth, err |-> FALSE]
      ELSE [startMonth |-> ParseYM(mm.min_ym), endMonth |-> ParseYM(mm.max_ym),
            err |-> FALSE]

\* variant: the query has no upper bound on the timestamp
queryPartitionNoEnd(st, startTime, endTime) ==
  InKeyOrder({r \in st : r.ts >= startTime})

\* partitionQuery / queryPartition : rows with startTime <= timestamp < endTime
queryPartition(st, startTime, endTime) ==
  InKeyOrder({r \in st : r.ts >= startTime /\ r.ts < endTime})

\* ------------------------------------------------------------- file system
NoFile == [exists |-> FALSE, complete |-> FALSE, rows |-> <<>>]
ParquetName == "vehicle_positions.parquet"
TmpName == "vehicle_positions.parquet.tmp"

\* filePath of writePartition
filePath(p) == <<Year(p), Month(p), ParquetName>>
tmpPath(p) == <<Year(p), Month(p), TmpName>>
Paths == {filePath(p) : p \in Periods} \cup {tmpPath(p) : p \in Periods}


\* --------------------------------------------------------- merge helpers
\* capacity of the row-group buffer (1_000_000 in the source), scaled down so
\* that a full buffer occurs within the store bound
rowGroupSize == 2

\* the rows of a file that reader.Read, called with a buffer of rowGroupSize
\* rows, returns without io.EOF.  A reader that reports io.EOF by a read of no
\* rows returns every row so; a reader that reports io.EOF together with the
\* last rows returns all rows but those of the last batch so.
ReadBeforeEOF(rows, eof) ==
  IF eof /\ rows # <<>>
  THEN SubSeq(rows, 1, rowGroupSize * ((Len(rows) - 1) \div rowGroupSize))
  ELSE rows

\* the inner loop of findLastUpdates over the rows of the batches : latest
\* timestamp per non-empty vehicle id; the map is a function whose domain is
\* the set of keys
RECURSIVE UpdateAll(_, _)
UpdateAll(rows, lastVehicleUpdates) ==
  IF rows = <<>> THEN lastVehicleUpdates
  ELSE LET vp == Head(rows)
           upd == IF vp.vehicle = "" THEN lastVehicleUpdates
                  ELSE IF vp.vehicle \notin DOMAIN lastVehicleUpdates
                          \/ vp.ts > lastVehicleUpdates[vp.vehicle]
                       THEN [v \in DOMAIN lastVehicleUpdates \cup {vp.vehicle} |->
                               IF v = vp.vehicle THEN vp.ts ELSE lastVehicleUpdates[v]]
                       ELSE lastVehicleUpdates
       IN  UpdateAll(Tail(rows), upd)

\* findLastUpdates on a reader of the file rows : a batch that reader.Read
\* returns together with io.EOF is dropped, the loop ends before its rows are
\* looked at
findLastUpdates(rows, eof, lastVehicleUpdates) ==
  UpdateAll(ReadBeforeEOF(rows, eof), lastVehicleUpdates)

EmptyMap == [v \in {} |-> 0]

\* variant: the merge always writes at the final path
StagingPathInPlace(p, opened) == filePath(p)

\* stagingPath : the final path itself unless a file could be opened there
StagingPathFor(p, opened) == IF opened THEN tmpPath(p) ELSE filePath(p)

\* parquet.CopyRows(writer, oldReader) : every row of the reader, in order
CopyRows(rows) == rows

\* variant: the copy phase is never entered
NeedsCopyNever(staging, final) == FALSE

\* the copy phase is entered when stagingPath != filePath
NeedsCopy(staging, final) == staging # final

\* variant: the query starts at the period's start whatever the map holds
MinUpdateTimePeriod(lastVehicleUpdates, p) == Unix(p)

\* minUpdateTime : least value of the map, the period's start when it is empty
MinUpdateTime(lastVehicleUpdates, p) ==
  IF DOMAIN lastVehicleUpdates = {} THEN Unix(p)
  ELSE LET vals == {lastVehicleUpdates[v] : v \in DOMAIN lastVehicleUpdates}
       IN  CHOOSE t \in vals : \A u \in vals : t <= u

\* "Don't append duplicate rows to existing files"
IsSkipped(vp, lastVehicleUpdates) ==
  vp.vehicle \in DOMAIN lastVehicleUpdates /\ ~(vp.ts > lastVehicleUpdates[vp.vehicle])

\* variant: the loop stops in front of endMonth
LoopContinuesBefore(p, e) == p < e

\* the loop condition of archivePartitions : !period.After(endMonth)
LoopContinues(p, e) == ~(p > e)

\* ------------------------------------------------------------------ state
VARIABLES
  eofWithRows,         \* the build's parquet reader reports io.EOF together with the last rows
  store,               \* rows of table vehicle_positions
  dirs,                \* partition directories that exist (by period)
  fs,                  \* path -> file
  pc,                  \* position of the archive command
  runs,                \* archive runs started so far in the behaviour
  startMonth, endMonth, period,
  lastVehicleUpdates,  \* watermark map of the current merge
  stagingPath,
  oldOpen,             \* oldFile / oldReader are open
  writerOpen,          \* f / writer are open
  openFiles,           \* file handles the process has opened and not closed
  writerAt,            \* path at which the file behind the writer is linked
  writerRows,          \* rows handed to the writer so far
  positions,           \* rows the query cursor has not delivered yet
  buffer, nNew, nSkipped, nCopied,
  writes,              \* row counts of the batches handed to writer.Write in the append phase
  calls,               \* history: periods writePartition was called for, this run
  renames,             \* history: periods whose rename was performed, this run
  runStore,            \* history: the store when the run began
  runFs,               \* history: the file system when the run began
  mergeFs,             \* history: the file system when the merge began
  queryStore,          \* history: the store when the merge ran its query, {} before
  failed,              \* history: periods whose merge ended with an error, this run
  faults,              \* history: failures of the environment so far
  clean,               \* history: no run has ended with an error or was terminated,
                       \* and no cursor has failed
  mismatch,            \* history: this run has halted on a row-count mismatch
  runQuiet,            \* history: no row was inserted since the run began
  prevQuiet            \* history: the run before completed, no row inserted since it began

vars == <<eofWithRows, faults, store, dirs, fs, pc, runs, startMonth, endMonth, period, openFiles,
          lastVehicleUpdates, stagingPath, oldOpen, writerOpen, writerAt, writerRows,
          positions, buffer, nNew, nSkipped, nCopied, writes,
          calls, renames, runStore, runFs, mergeFs, queryStore, failed, clean,
          mismatch, runQuiet, prevQuiet>>

locals == <<lastVehicleUpdates, stagingPath, oldOpen, writerOpen, writerAt, writerRows,
            positions, buffer, nNew, nSkipped, nCopied, writes>>
kept == <<calls, renames, runStore, runFs, mergeFs, mismatch>>
quiet == <<runQuiet, prevQuiet>>
history == <<calls, renames, runStore, runFs, mergeFs, queryStore, failed, clean,
             mismatch, runQuiet, prevQuiet>>
range == <<startMonth, endMonth, period>>

NoPath == <<>>

Init ==
  /\ eofWithRows \in BOOLEAN
  /\ store = {}
  /\ dirs = {}
  /\ fs = [p \in Paths |-> NoFile]
  /\ pc = "idle"
  /\ runs = 0
  /\ openFiles = {}
  /\ startMonth = ZeroMonth /\ endMonth = ZeroMonth /\ period = ZeroMonth
  /\ lastVehicleUpdates = EmptyMap
  /\ stagingPath = NoPath
  /\ oldOpen = FALSE /\ writerOpen = FALSE /\ writerAt = NoPath
  /\ writerRows = <<>> /\ positions = <<>> /\ buffer = <<>>
  /\ nNew = 0 /\ nSkipped = 0 /\ nCopied = 0 /\ writes = <<>>
  /\ calls = <<>> /\ renames = <<>>
  /\ runStore = {} /\ runFs = fs /\ mergeFs = fs /\ queryStore = {}
  /\ failed = <<>>
  /\ faults = 0
  /\ clean = TRUE
  /\ mismatch = FALSE
  /\ runQuiet = FALSE /\ prevQuiet = FALSE

\* the handle that os.Open or os.Create has returned to variable name of the
\* merge of period p
Handle(name, p) == [name |-> name, period |-> p]

\* the deferred calls of writePartition that close a file : oldFile.Close().
\* No statement closes f, the staging file; the finalizer of os.File, which
\* the Go runtime may run at some collection and need not run at all, is left
\* out.
DeferredClose(files, p) == files \ {Handle("oldFile", p)}

\* the step is a failure of the environment, the step is none
Fault == faults < MaxFaults /\ faults' = faults + 1
NoFault == UNCHANGED faults

\* a run that ends with a failure leaves no completed merge and no completed
\* run to look at : the history of its query and of the quiet runs ends
FailureEnds == queryStore' = {} /\ runQuiet' = FALSE /\ prevQuiet' = FALSE

\* values of the locals between merges
ResetLocals ==
  /\ lastVehicleUpdates' = EmptyMap
  /\ stagingPath' = NoPath
  /\ oldOpen' = FALSE /\ writerOpen' = FALSE /\ writerAt' = NoPath
  /\ writerRows' = <<>> /\ positions' = <<>> /\ buffer' = <<>>
  /\ nNew' = 0 /\ nSkipped' = 0 /\ nCopied' = 0 /\ writes' = <<>>

\* addVehiclePositions for one feed entity.  It runs in a process of its own
\* and commits whenever a feed arrives, wherever the archive command is; an
\* open cursor of the archive command keeps the rows of its query.
Ingest(r) ==
  /\ NoFault
  /\ Cardinality(store) < MaxStoreRows
  /\ store' = insertRow(store, r)
  /\ store' # store
  /\ runQuiet' = FALSE /\ prevQuiet' = FALSE
  /\ UNCHANGED <<eofWithRows, dirs, fs, pc, runs, range, locals,
                 calls, renames, runStore, runFs, mergeFs, queryStore, failed, clean, mismatch>>
  /\ UNCHANGED openFiles

\* the archive command : archivePartitions up to the first test of the loop
ArchivePartitions ==
  /\ NoFault
  /\ pc = "idle"
  /\ runs < MaxRuns
  /\ runs' = runs + 1
  /\ LET r == findArchiveRange(store)
     IN  /\ startMonth' = r.startMonth
         /\ endMonth' = r.endMonth
         /\ period' = r.startMonth
  /\ pc' = "loop"
  /\ runStore' = store
  /\ runQuiet' = TRUE
  /\ UNCHANGED <<eofWithRows, store, dirs, fs, locals, calls, renames, runFs, mergeFs, queryStore,
                 failed, clean, mismatch, prevQuiet>>
  /\ UNCHANGED openFiles

\* db.Get fails in findArchiveRange : the run ends before any partition
RangeError ==
  /\ Fault
  /\ pc = "idle"
  /\ runs < MaxRuns
  /\ runs' = runs + 1
  /\ pc' = "panic"
  /\ runStore' = store
  /\ FailureEnds
  /\ clean' = FALSE
  /\ UNCHANGED <<eofWithRows, store, dirs, fs, range, locals, calls, renames, runFs, mergeFs,
                 failed, mismatch>>
  /\ UNCHANGED openFiles

\* the loop test : leave the loop, or call writePartition(db, archiveDir, period)
LoopDone ==
  /\ NoFault
  /\ pc = "loop"
  /\ ~LoopContinues(period, endMonth)
  /\ pc' = "done"
  /\ UNCHANGED <<eofWithRows, store, dirs, fs, runs, range, locals, history>>
  /\ UNCHANGED openFiles

CallWritePartition ==
  /\ NoFault
  /\ pc = "loop"
  /\ LoopContinues(period, endMonth)
  /\ pc' = "mkdir"
  /\ calls' = Append(calls, period)
  /\ mergeFs' = fs
  /\ queryStore' = {}
  /\ UNCHANGED <<eofWithRows, store, dirs, fs, runs, range, locals,
                 renames, runStore, runFs, failed, clean, mismatch, runQuiet, prevQuiet>>
  /\ UNCHANGED openFiles

\* os.MkdirAll(partitionDir)
MkdirAll ==
  /\ NoFault
  /\ pc = "mkdir"
  /\ dirs' = dirs \cup {period}
  /\ pc' = "open"
  /\ UNCHANGED <<eofWithRows, store, fs, runs, range, locals, history>>
  /\ UNCHANGED openFiles

\* os.Open(filePath) fails with ErrNotExist : no reader, staging is the final path
OpenAbsent ==
  /\ NoFault
  /\ pc = "open"
  /\ ~fs[filePath(period)].exists
  /\ stagingPath' = StagingPathFor(period, FALSE)
  /\ pc' = "create"
  /\ UNCHANGED <<eofWithRows, store, dirs, fs, runs, range, history,
                 lastVehicleUpdates, oldOpen, writerOpen, writerAt, writerRows,
                 positions, buffer, nNew, nSkipped, nCopied, writes>>
  /\ UNCHANGED openFiles

\* os.Open succeeds : reader, findLastUpdates, Reset, staging is the .tmp path
OpenExisting ==
  /\ NoFault
  /\ pc = "open"
  /\ fs[filePath(period)].exists
  /\ fs[filePath(period)].complete
  /\ oldOpen' = TRUE
  /\ openFiles' = openFiles \cup {Handle("oldFile", period)}
  /\ lastVehicleUpdates' = findLastUpdates(fs[filePath(period)].rows, eofWithRows, EmptyMap)
  /\ stagingPath' = StagingPathFor(period, TRUE)
  /\ pc' = "create"
  /\ UNCHANGED <<eofWithRows, store, dirs, fs, runs, range, history,
                 writerOpen, writerAt, writerRows,
                 positions, buffer, nNew, nSkipped, nCopied, writes>>


\* os.Create(stagingPath) and parquet.NewGenericWriter : the staging path holds
\* a new file without content, whatever it held before
CreateStaging ==
  /\ NoFault
  /\ pc = "create"
  /\ fs' = [fs EXCEPT ![stagingPath] = [exists |-> TRUE, complete |-> FALSE, rows |-> <<>>]]
  /\ writerOpen' = TRUE
  /\ openFiles' = openFiles \cup {Handle("f", period)}
  /\ writerAt' = stagingPath
  /\ writerRows' = <<>>
  /\ pc' = IF NeedsCopy(stagingPath, filePath(period)) THEN "copy" ELSE "query"
  /\ UNCHANGED <<eofWithRows, store, dirs, runs, range, history,
                 lastVehicleUpdates, stagingPath, oldOpen,
                 positions, buffer, nNew, nSkipped, nCopied, writes>>

\* the copy phase : n, err := parquet.CopyRows(writer, oldReader)
\* oldReader.NumRows()
NumRows(file) == Len(file.rows)

\* variant: archivePartitions goes on with the next month after an error
ErrorReturnContinue(rows) ==
  /\ fs' = IF writerOpen
           THEN [fs EXCEPT ![writerAt] = [exists |-> TRUE, complete |-> TRUE, rows |-> rows]]
           ELSE fs
  /\ pc' = "loop"
  /\ period' = AddMonth(period)
  /\ failed' = Append(failed, period)
  /\ clean' = FALSE
  /\ openFiles' = DeferredClose(openFiles, period)
  /\ ResetLocals
  /\ FailureEnds
  /\ UNCHANGED <<eofWithRows, store, dirs, runs, startMonth, endMonth, kept>>

\* what the error return of a merge leaves behind : the deferred
\* writer.Close() has finalized the file behind the writer with the rows
\* handed over, archivePartitions panics with the error
ErrorReturn(rows) ==
  /\ fs' = IF writerOpen
           THEN [fs EXCEPT ![writerAt] = [exists |-> TRUE, complete |-> TRUE, rows |-> rows]]
           ELSE fs
  /\ pc' = "panic"
  /\ failed' = Append(failed, period)
  /\ clean' = FALSE
  /\ openFiles' = DeferredClose(openFiles, period)
  /\ ResetLocals
  /\ FailureEnds
  /\ UNCHANGED <<eofWithRows, store, dirs, runs, range, kept>>

\* the row counts a call of parquet.CopyRows or writer.Write on n rows can
\* report without an error : the rows it has taken, the first of them
Reported(rows) == 0..Len(rows)

\* log.Panicf on a row count that differs from the expected one : the
\* deferred writer.Close() finalizes the file behind the writer with the rows
\* the writer has taken, and the panic ends the process
Panicf(rows) ==
  /\ fs' = IF writerOpen
           THEN [fs EXCEPT ![writerAt] = [exists |-> TRUE, complete |-> TRUE, rows |-> rows]]
           ELSE fs
  /\ pc' = "panic"
  /\ failed' = Append(failed, period)
  /\ clean' = FALSE
  /\ mismatch' = TRUE
  /\ openFiles' = DeferredClose(openFiles, period)
  /\ ResetLocals
  /\ UNCHANGED <<eofWithRows, store, dirs, runs, range,
                 calls, renames, runStore, runFs, mergeFs>>
  /\ FailureEnds

CopyExisting ==
  /\ pc = "copy"
  /\ \E n \in Reported(CopyRows(fs[filePath(period)].rows)) :
       LET copied == SubSeq(CopyRows(fs[filePath(period)].rows), 1, n)
       IN  IF NumRows(fs[filePath(period)]) # n
           THEN Fault /\ Panicf(writerRows \o copied)
           ELSE /\ NoFault
                /\ writerRows' = writerRows \o copied
                /\ nCopied' = n
                /\ pc' = "query"
                /\ UNCHANGED <<eofWithRows, store, dirs, fs, runs, range, history, openFiles,
                               lastVehicleUpdates, stagingPath, oldOpen, writerOpen, writerAt,
                               positions, buffer, nNew, nSkipped, writes>>

\* minUpdateTime and queryPartition(db, minUpdateTime, period.AddDate(0, 1, 0))
Query ==
  /\ NoFault
  /\ pc = "query"
  /\ positions' = queryPartition(store, MinUpdateTime(lastVehicleUpdates, period),
                                 Unix(AddMonth(period)))
  /\ buffer' = <<>> /\ nNew' = 0 /\ nSkipped' = 0
  /\ pc' = "scan"
  /\ queryStore' = store
  /\ UNCHANGED <<eofWithRows, store, dirs, fs, runs, range,
                 calls, renames, runStore, runFs, mergeFs, failed, clean,
                 mismatch, runQuiet, prevQuiet,
                 lastVehicleUpdates, stagingPath, oldOpen, writerOpen, writerAt,
                 writerRows, nCopied>>
  /\ writes' = <<>>
  /\ UNCHANGED openFiles

\* variant: the buffer is handed over when it holds more than rowGroupSize rows
BufferFullAbove(batch) == Len(batch) > rowGroupSize

\* the test after the append : len(buffer) >= rowGroupSize
BufferFull(batch) == Len(batch) >= rowGroupSize

\* one iteration of the loop over positions.Next()
ScanRow ==
  /\ pc = "scan"
  /\ positions # <<>>
  /\ LET vp == Head(positions)
         batch == Append(buffer, vp)
     IN  IF IsSkipped(vp, lastVehicleUpdates)
         THEN /\ NoFault
              /\ nSkipped' = nSkipped + 1
              /\ positions' = Tail(positions)
              /\ UNCHANGED <<nNew, buffer, writerRows>>
              /\ UNCHANGED <<eofWithRows, store, dirs, fs, pc, runs, range, history, openFiles,
                             lastVehicleUpdates, stagingPath, oldOpen, writerOpen, writerAt,
                             nCopied, writes>>
         ELSE IF BufferFull(batch)
         THEN \E n \in Reported(batch) :
                IF n # rowGroupSize
                THEN Fault /\ Panicf(writerRows \o SubSeq(batch, 1, n))
                ELSE /\ NoFault
                     /\ nNew' = nNew + 1
                     /\ writerRows' = writerRows \o batch
                     /\ buffer' = <<>>
                     /\ positions' = Tail(positions)
                     /\ UNCHANGED <<eofWithRows, store, dirs, fs, pc, runs, range, history, openFiles,
                                    lastVehicleUpdates, stagingPath, oldOpen, writerOpen,
                                    writerAt, nCopied, nSkipped>>
                     /\ writes' = Append(writes, Len(batch))
         ELSE /\ NoFault
              /\ nNew' = nNew + 1
              /\ buffer' = batch
              /\ positions' = Tail(positions)
              /\ UNCHANGED <<eofWithRows, store, dirs, fs, pc, runs, range, history, openFiles,
                             lastVehicleUpdates, stagingPath, oldOpen, writerOpen, writerAt,
                             writerRows, nCopied, nSkipped, writes>>

\* positions.Next() is false : writer.Write(buffer) of the last, partial
\* batch.  Next() is false when the rows of the query are exhausted and also
\* when the cursor has failed with rows undelivered; positions.Err() is not
\* consulted, so the merge goes on in both cases.
FinalWrite ==
  /\ pc = "scan"
  /\ \E n \in Reported(buffer) :
       IF n # Len(buffer)
       THEN Fault /\ Panicf(writerRows \o SubSeq(buffer, 1, n))
       ELSE /\ IF positions = <<>> THEN NoFault ELSE Fault
            /\ writerRows' = writerRows \o buffer
            /\ pc' = "rename"
            /\ clean' = (clean /\ positions = <<>>)
            /\ UNCHANGED <<eofWithRows, store, dirs, fs, runs, range, kept, queryStore, quiet,
                           failed, openFiles,
                           lastVehicleUpdates, stagingPath, oldOpen, writerOpen, writerAt,
                           positions, buffer, nNew, nSkipped, nCopied>>
            /\ writes' = Append(writes, Len(buffer))

\* variant: the file is copied to the new path and stays at the old one
RenamedCopy(files, oldpath, newpath) ==
  [files EXCEPT ![newpath] = files[oldpath]]

\* the files after os.Rename(oldpath, newpath) : the file is at newpath, in
\* place of what was there, and oldpath is gone
Renamed(files, oldpath, newpath) ==
  IF oldpath = newpath THEN files
  ELSE [files EXCEPT ![newpath] = files[oldpath], ![oldpath] = NoFile]

\* os.Rename(stagingPath, filePath), evaluated by the return statement before
\* the deferred calls run
Rename ==
  /\ NoFault
  /\ pc = "rename"
  /\ fs' = Renamed(fs, stagingPath, filePath(period))
  /\ writerAt' = filePath(period)
  /\ renames' = Append(renames, period)
  /\ pc' = "close"
  /\ UNCHANGED <<eofWithRows, store, dirs, runs, range,
                 lastVehicleUpdates, stagingPath, oldOpen, writerOpen, writerRows,
                 positions, buffer, nNew, nSkipped, nCopied, writes,
                 calls, runStore, runFs, mergeFs, queryStore, failed, clean, mismatch,
                 runQuiet, prevQuiet>>
  /\ UNCHANGED openFiles

\* the deferred calls on the successful return : writer.Close() writes the
\* buffered row groups and the footer, then oldReader and oldFile are closed;
\* archivePartitions advances the period
CloseWriter ==
  /\ NoFault
  /\ pc = "close"
  /\ fs' = [fs EXCEPT ![writerAt] = [exists |-> TRUE, complete |-> TRUE, rows |-> writerRows]]
  /\ period' = AddMonth(period)
  /\ pc' = "loop"
  /\ openFiles' = DeferredClose(openFiles, period)
  /\ ResetLocals
  /\ UNCHANGED <<eofWithRows, store, dirs, runs, startMonth, endMonth, history>>

\* places at which a call of writePartition can return an error or panic
ErrorPoints == {"mkdir", "open", "create", "copy", "query", "scan", "rename", "close"}

\* an I/O, decode or encode error in writePartition.  A failing copy has
\* handed over a proper prefix of the existing rows; a failing writer.Close()
\* leaves the file without footer.
MergeError ==
  /\ Fault
  /\ pc \in ErrorPoints
  /\ IF pc = "close"
     THEN /\ pc' = "panic"
          /\ failed' = Append(failed, period)
          /\ clean' = FALSE
          /\ openFiles' = DeferredClose(openFiles, period)
          /\ ResetLocals
          /\ FailureEnds
          /\ UNCHANGED <<eofWithRows, store, dirs, fs, runs, range, kept>>
     ELSE IF pc = "copy"
     THEN \E k \in 0..NumRows(fs[filePath(period)]) :
            /\ k < NumRows(fs[filePath(period)]) \/ k = 0
            /\ ErrorReturn(SubSeq(fs[filePath(period)].rows, 1, k))
     ELSE ErrorReturn(writerRows)

\* parquet.NewGenericReader panics on a file without footer
OpenCorrupt ==
  /\ NoFault
  /\ pc = "open"
  /\ fs[filePath(period)].exists
  /\ ~fs[filePath(period)].complete
  /\ ErrorReturn(<<>>)

\* the process is terminated : nothing deferred runs, the files stay as they are
Kill ==
  /\ Fault
  /\ pc \notin {"idle", "done", "panic", "dead"}
  /\ pc' = "dead"
  /\ clean' = FALSE
  /\ openFiles' = {}
  /\ ResetLocals
  /\ FailureEnds
  /\ UNCHANGED <<eofWithRows, store, dirs, fs, runs, range, kept, failed>>

\* the process is gone : the next invocation of the archive command starts
\* from the store and the files alone
Exit ==
  /\ NoFault
  /\ pc \in {"done", "panic", "dead"}
  /\ pc' = "idle"
  /\ startMonth' = ZeroMonth /\ endMonth' = ZeroMonth /\ period' = ZeroMonth
  /\ calls' = <<>> /\ renames' = <<>>
  /\ runStore' = {} /\ runFs' = fs /\ mergeFs' = fs /\ queryStore' = {}
  /\ failed' = <<>>
  /\ mismatch' = FALSE
  /\ runQuiet' = FALSE
  /\ UNCHANGED clean
  /\ openFiles' = {}
  /\ prevQuiet' = (pc = "done" /\ runQuiet)
  /\ UNCHANGED <<eofWithRows, store, dirs, fs, runs, locals>>

Next ==
  \/ \E r \in Row : Ingest(r)
  \/ ArchivePartitions
  \/ RangeError
  \/ LoopDone
  \/ CallWritePartition
  \/ MkdirAll
  \/ OpenAbsent
  \/ OpenExisting
  \/ OpenCorrupt
  \/ CreateStaging
  \/ CopyExisting
  \/ Query
  \/ ScanRow
  \/ FinalWrite
  \/ Rename
  \/ CloseWriter
  \/ MergeError
  \/ Kill
  \/ Exit

Spec == Init /\ [][Next]_vars

\* the rows of 1970-01 with which an archive can begin
FirstRows == {r \in Row : r.ts = 1 /\ r.trip = "T1"}

\* the state after an archive run on a store of one row of 1970-01 has
\* completed and the process is gone : the partition file of 1970-01 holds
\* the row
InitArchived ==
  \E r \in FirstRows :
    /\ eofWithRows \in BOOLEAN
    /\ store = {r}
    /\ dirs = {0}
    /\ fs = [p \in Paths |-> IF p = filePath(0)
                              THEN [exists |-> TRUE, complete |-> TRUE, rows |-> <<r>>]
                              ELSE NoFile]
    /\ pc = "idle"
    /\ runs = 0
    /\ openFiles = {}
    /\ startMonth = ZeroMonth /\ endMonth = ZeroMonth /\ period = ZeroMonth
    /\ lastVehicleUpdates = EmptyMap
    /\ stagingPath = NoPath
    /\ oldOpen = FALSE /\ writerOpen = FALSE /\ writerAt = NoPath
    /\ writerRows = <<>> /\ positions = <<>> /\ buffer = <<>>
    /\ nNew = 0 /\ nSkipped = 0 /\ nCopied = 0 /\ writes = <<>>
    /\ calls = <<>> /\ renames = <<>>
    /\ runStore = {} /\ runFs = fs /\ mergeFs = fs /\ queryStore = {}
    /\ failed = <<>>
    /\ faults = 0
    /\ clean = TRUE
    /\ mismatch = FALSE
    /\ runQuiet = FALSE /\ prevQuiet = FALSE

\* the archive command on an archive that holds a partition file
SpecArchived == InitArchived /\ [][Next]_vars

TypeOK ==
  /\ store \subseteq Row
  /\ pc \in {"idle", "loop", "mkdir", "open", "create", "copy", "query", "scan", "rename",
            "close", "done", "panic", "dead"}
  /\ period \in Periods \cup {p + 1 : p \in Periods}


\* ======================================================================
\* Properties
\* ======================================================================
RowsOf(seq) == {seq[i] : i \in 1..Len(seq)}
Count(seq, r) == Cardinality({i \in 1..Len(seq) : seq[i] = r})
SameBag(a, b) == Len(a) = Len(b) /\ \A r \in RowsOf(a) \cup RowsOf(b) : Count(a, r) = Count(b, r)
IsPrefix(a, b) == Len(a) <= Len(b) /\ SubSeq(b, 1, Len(a)) = a
Last(seq) == seq[Len(seq)]
\* the partition file of period p, as a reader sees it
Partition(p) == fs[filePath(p)]
\* archivePartitions has returned nil
RunCompleted == pc = "done"
\* a merge has been called and its rename has not been performed
BeforeRename == Len(calls) > Len(renames)
\* a merge has just completed (writePartition returned nil)
MergeCompleted == pc \in {"loop", "done"} /\ calls # <<>>
RECURSIVE MonthsFromTo(_, _)
MonthsFromTo(a, b) == IF a > b THEN <<>> ELSE <<a>> \o MonthsFromTo(a + 1, b)

\* C1 -- No loss: when an archive run has completed, after ingests and
\* earlier runs that all completed, with no failure so far, every row with
\* timestamp > 0 that was in the store when the run began is in some
\* partition file.
NoLoss ==
  (RunCompleted /\ clean) =>
    \A r \in runStore : r.ts > 0 => \E p \in Periods : r \in RowsOf(Partition(p).rows)

\* C2 -- Idempotence: a run that completes after a completed run, with no
\* row inserted since that earlier run began and no failure so far, leaves
\* in every partition file the multiset of rows it found there.
Idempotence ==
  (RunCompleted /\ clean /\ prevQuiet /\ runQuiet) =>
    \A p \in Periods :
      /\ Partition(p).exists = runFs[filePath(p)].exists
      /\ SameBag(Partition(p).rows, runFs[filePath(p)].rows)

\* C3 -- Per-vehicle monotonicity: in a partition file that a completed
\* merge has produced, after merges that all completed, with no failure so
\* far, no two rows with the same vehicle id have the same timestamp.
PerVehicleMonotonicity ==
  (MergeCompleted /\ clean) =>
    LET rows == Partition(Last(calls)).rows
    IN  \A i, j \in 1..Len(rows) :
          (i # j /\ rows[i].vehicle = rows[j].vehicle) => rows[i].ts # rows[j].ts

\* C4 -- Crash safety: when the process is terminated in a merge before the
\* rename and a partition file existed when the merge began, that file is
\* unchanged, and so is every other path except the merge's staging path.
CrashSafety ==
  (pc = "dead" /\ BeforeRename /\ mergeFs[filePath(period)].exists) =>
    /\ Partition(period) = mergeFs[filePath(period)]
    /\ \A path \in Paths \ {tmpPath(period)} : fs[path] = mergeFs[path]

\* a merge of an existing, readable partition was terminated after it had
\* created its staging file
CrashSafetyWitness ==
  /\ pc = "dead" /\ BeforeRename
  /\ mergeFs[filePath(period)].exists /\ mergeFs[filePath(period)].complete
  /\ Len(mergeFs[filePath(period)].rows) > 0
  /\ fs[tmpPath(period)].exists

\* C5 -- Existing rows are preserved: after a completed merge of a partition
\* that had a readable file, the new file starts with exactly the rows of the
\* old file, in order, so its row count has not decreased; in the merge the
\* number of rows copied equals the row count of the old file.
ExistingRowsPreserved ==
  /\ (MergeCompleted /\ mergeFs[filePath(Last(calls))].exists) =>
       /\ Partition(Last(calls)).complete
       /\ IsPrefix(mergeFs[filePath(Last(calls))].rows, Partition(Last(calls)).rows)
  /\ (pc \in {"query", "scan", "rename"} /\ stagingPath # filePath(period)) =>
       /\ nCopied = NumRows(mergeFs[filePath(period)])
       /\ IsPrefix(mergeFs[filePath(period)].rows, writerRows)

\* a merge has completed on a file that had rows and has appended to it
ExistingRowsPreservedWitness ==
  /\ MergeCompleted
  /\ mergeFs[filePath(Last(calls))].exists
  /\ Len(mergeFs[filePath(Last(calls))].rows) > 0
  /\ Len(Partition(Last(calls)).rows) > Len(mergeFs[filePath(Last(calls))].rows)

\* C6 -- Partition boundary correctness: every row of the partition file of
\* a period has a timestamp in [periodStart, periodStart + 1 month), so no
\* row lies in the file of a month that does not contain its timestamp.
PartitionBoundary ==
  \A p \in Periods :
    \A r \in RowsOf(Partition(p).rows) : Unix(p) <= r.ts /\ r.ts < Unix(AddMonth(p))

\* a completed run has filled the partitions of two different months
PartitionBoundaryWitness ==
  /\ RunCompleted
  /\ Len(Partition(0).rows) > 0
  /\ Len(Partition(1).rows) > 0

\* C7 -- Empty store is a no-op: a run that began on a store without a row
\* with timestamp > 0 calls writePartition for no month and changes no file.
EmptyStoreNoOp ==
  (pc # "idle" /\ clean /\ \A r \in runStore : r.ts <= 0) =>
    /\ calls = <<>>
    /\ fs = runFs

\* C8 -- Invalid records are excluded: rows with timestamp <= 0 do not change
\* the archive range and, when every merge so far has completed, are in no
\* partition file.
InvalidExcluded ==
  /\ findArchiveRange(store) = findArchiveRange({r \in store : r.ts > 0})
  /\ clean => \A p \in Periods : \A r \in RowsOf(Partition(p).rows) : r.ts > 0

\* C9 -- Driver sequencing: the months for which writePartition is called are
\* an initial part of the range computed from the store at the start of the
\* run, one call each in ascending order, and the whole range once the run
\* has completed; a call is made only when every earlier call has performed
\* its rename; no path of a month outside the range changes during the run.
DriverSequencing ==
  pc # "idle" =>
    LET r == findArchiveRange(runStore)
        months == MonthsFromTo(r.startMonth, r.endMonth)
    IN  /\ IsPrefix(calls, months)
        /\ RunCompleted => calls = months
        /\ IsPrefix(renames, calls)
        /\ Len(calls) <= Len(renames) + 1
        /\ pc = "mkdir" => renames = SubSeq(calls, 1, Len(calls) - 1)
        /\ \A p \in Periods : (p < r.startMonth \/ p > r.endMonth) =>
             /\ fs[filePath(p)] = runFs[filePath(p)]
             /\ fs[tmpPath(p)] = runFs[tmpPath(p)]

\* a run over two months has completed
DriverSequencingWitness ==
  RunCompleted /\ calls = <<0, 1>> /\ renames = <<0, 1>>

\* C10 -- Halt on first error: once a merge has failed the run is over with
\* a failure, the failed month is the last one called and was called once, no
\* path of a later month has changed in the run, and the paths of the earlier
\* months are as the completed merges left them.
HaltOnFirstError ==
  failed # <<>> =>
    /\ pc = "panic"
    /\ Len(failed) = 1
    /\ Last(calls) = failed[1]
    /\ \A i, j \in 1..Len(calls) : i < j => calls[i] < calls[j]
    /\ \A p \in Periods :
         /\ p > failed[1] => /\ fs[filePath(p)] = runFs[filePath(p)]
                             /\ fs[tmpPath(p)] = runFs[tmpPath(p)]
         /\ p < failed[1] => /\ fs[filePath(p)] = mergeFs[filePath(p)]
                             /\ fs[tmpPath(p)] = mergeFs[tmpPath(p)]

\* the merge of the first of two months has failed after it had created its
\* staging file, and the second month has a partition file from the run before
HaltOnFirstErrorWitness ==
  /\ pc = "panic" /\ failed = <<0>> /\ calls = <<0>> /\ renames = <<>>
  /\ endMonth = 1
  /\ fs[tmpPath(0)].exists
  /\ Partition(1).complete /\ Len(Partition(1).rows) > 0

\* C11 -- Row-count mismatch is fatal and never published: when a run has
\* halted on a row count that differs, the process is over with a failure,
\* the rename of that merge was not performed, and the final path of the
\* partition holds what it held when the merge began, so no file with
\* mismatched counts is the partition file.
MismatchNeverPublished ==
  mismatch =>
    /\ pc = "panic"
    /\ BeforeRename
    /\ Partition(Last(calls)) = mergeFs[filePath(Last(calls))]

\* C12 -- Bounded open resources: at every point of a run at most one handle
\* of an existing partition file and one handle of a staging file are open,
\* and at the loop test, before the next merge opens its files, no handle
\* that an earlier merge has opened is open.
BoundedOpenResources ==
  /\ Cardinality({h \in openFiles : h.name = "oldFile"}) <= 1
  /\ Cardinality({h \in openFiles : h.name = "f"}) <= 1
  /\ pc = "loop" => openFiles = {}

\* C13 -- Finalize before replace: once the rename of a merge has been
\* performed, the writer of that merge is closed and the file at the final
\* path of the partition is a completely written, closed partition file.
FinalizeBeforeReplace ==
  \A i \in 1..Len(renames) :
    /\ ~(writerOpen /\ writerAt = filePath(renames[i]))
    /\ Partition(renames[i]).exists
    /\ Partition(renames[i]).complete

\* the rows of store st that are strictly newer than the watermark of their
\* vehicle in the file rows old, inside the month of period p
StrictlyNewer(st, old, p) ==
  LET wm == findLastUpdates(old, FALSE, EmptyMap)
  IN  {r \in st : /\ r.vehicle \in DOMAIN wm
                  /\ r.ts > wm[r.vehicle]
                  /\ Unix(p) <= r.ts /\ r.ts < Unix(AddMonth(p))}

\* C14 -- A strictly newer row is archived exactly once: when a merge of a
\* partition with an existing file has completed, every row that was in the
\* store when the run began, and so when the merge began, and was strictly
\* newer than the watermark of its vehicle is in the new file once more than
\* in the old file, and every
\* row of the old file with a non-empty vehicle id, such as a row a merge
\* before has appended, is in the new file as often as in the old file.
NewerRowOnce ==
  (MergeCompleted /\ mergeFs[filePath(Last(calls))].exists) =>
    LET old == mergeFs[filePath(Last(calls))].rows
        new == Partition(Last(calls)).rows
    IN  /\ \A r \in StrictlyNewer(runStore, old, Last(calls)) :
             /\ Count(old, r) = 0
             /\ Count(new, r) = 1
        /\ \A r \in RowsOf(old) : r.vehicle # "" => Count(new, r) = Count(old, r)

\* C15 -- Row-group buffering: in the append phase the buffer holds fewer
\* than rowGroupSize rows between two iterations, every full batch of
\* rowGroupSize rows has been handed to the writer, and after the last row
\* the query delivers the remaining batch is handed over once, also when it
\* is empty;
\* the rows handed over, followed by the buffer, are the delivered rows that
\* were not skipped, in query order, and their number is nNew.
RowGroupBuffering ==
  pc \in {"scan", "rename"} =>
    LET all == queryPartition(queryStore, MinUpdateTime(lastVehicleUpdates, period),
                              Unix(AddMonth(period)))
        delivered == SubSeq(all, 1, Len(all) - Len(positions))
        new == SelectSeq(delivered, LAMBDA vp : ~IsSkipped(vp, lastVehicleUpdates))
        appended == SubSeq(writerRows, nCopied + 1, Len(writerRows))
        full == [i \in 1..(nNew \div rowGroupSize) |-> rowGroupSize]
    IN  /\ Len(buffer) < rowGroupSize
        /\ nNew = Len(new)
        /\ pc = "scan" => /\ appended \o buffer = new
                          /\ Len(buffer) = nNew % rowGroupSize
                          /\ writes = full
        /\ pc = "rename" => /\ appended = new
                            /\ Len(appended) = nNew
                            /\ writes = full \o <<nNew % rowGroupSize>>

\* the append phase of a merge has handed over a full batch and then, after
\* the last row, an empty one
RowGroupBufferingWitness ==
  /\ pc = "rename"
  /\ writes = <<rowGroupSize, 0>>
  /\ nNew = rowGroupSize

\* C16 -- Query window: in a merge minUpdateTime is the least watermark of
\* the map, or the period's start when the map is empty, and lies in
\* [periodStart, periodStart + 1 month); the query delivers exactly the rows
\* the store holds when the query runs with minUpdateTime <= timestamp <
\* periodStart + 1 month, each once, whatever is inserted while the cursor is
\* open.
QueryWindow ==
  pc \in {"query", "scan"} =>
    LET m == MinUpdateTime(lastVehicleUpdates, period)
        window == {r \in queryStore : m <= r.ts /\ r.ts < Unix(AddMonth(period))}
    IN  /\ DOMAIN lastVehicleUpdates = {} => m = Unix(period)
        /\ DOMAIN lastVehicleUpdates # {} =>
             /\ \E v \in DOMAIN lastVehicleUpdates : m = lastVehicleUpdates[v]
             /\ \A v \in DOMAIN lastVehicleUpdates : m <= lastVehicleUpdates[v]
        /\ Unix(period) <= m /\ m < Unix(AddMonth(period))
        /\ pc = "scan" =>
             /\ RowsOf(positions) \subseteq window
             /\ Len(positions) + nNew + nSkipped = Cardinality(window)
             /\ (nNew + nSkipped = 0) => RowsOf(positions) = window

\* a query is about to be read whose window starts at the least of two
\* different watermarks, after the period's start
QueryWindowWitness ==
  /\ pc = "scan" /\ nNew + nSkipped = 0 /\ Len(positions) = 2
  /\ Cardinality({lastVehicleUpdates[v] : v \in DOMAIN lastVehicleUpdates}) = 2
  /\ MinUpdateTime(lastVehicleUpdates, period) > Unix(period)

\* C17 -- Watermark map: from the opening of the existing file to the end of
\* the merge the map has an entry for exactly the non-empty vehicle ids of
\* the file the merge found, each entry is the greatest timestamp of that
\* vehicle's rows in the file, and the map is empty when the merge found no
\* file; between merges the map of the merge before is gone.
WatermarkMap ==
  /\ pc \in {"create", "copy", "query", "scan", "rename", "close"} =>
       LET old == mergeFs[filePath(period)]
           ids == {r.vehicle : r \in RowsOf(old.rows)} \ {""}
       IN  /\ "" \notin DOMAIN lastVehicleUpdates
           /\ ~old.exists => DOMAIN lastVehicleUpdates = {}
           /\ old.exists =>
                /\ DOMAIN lastVehicleUpdates = ids
                /\ \A v \in ids :
                     /\ \E r \in RowsOf(old.rows) :
                          r.vehicle = v /\ r.ts = lastVehicleUpdates[v]
                     /\ \A r \in RowsOf(old.rows) :
                          r.vehicle = v => r.ts <= lastVehicleUpdates[v]
  /\ pc \in {"loop", "mkdir", "open"} => lastVehicleUpdates = EmptyMap

\* what a completed merge of period p can leave at the final path when it
\* finds the readable file rows old and its query the store st, with a reader of kind
\* eof : the rows of old, then the rows that are not skipped among those the
\* query delivers, which are all rows of the query or, when the cursor
\* fails, the first of them
MergeResults(old, st, p, eof) ==
  LET wm == findLastUpdates(old, eof, EmptyMap)
      q == queryPartition(st, MinUpdateTime(wm, p), Unix(AddMonth(p)))
  IN  {old \o SelectSeq(SubSeq(q, 1, k), LAMBDA vp : ~IsSkipped(vp, wm)) : k \in 0..Len(q)}

\* C18 -- Interrupted merges are reclaimed: when a merge of a partition has
\* completed that found the partition file and a staging file left over by an
\* interrupted merge, the partition file holds what a merge of the same file
\* and store without a left-over staging file produces, so no row of the
\* left-over file, and no staging file is left.
InterruptedReclaimed ==
  (/\ MergeCompleted
   /\ mergeFs[filePath(Last(calls))].exists
   /\ mergeFs[tmpPath(Last(calls))].exists) =>
    /\ Partition(Last(calls)).complete
    /\ Partition(Last(calls)).rows \in
         MergeResults(mergeFs[filePath(Last(calls))].rows, queryStore, Last(calls),
                      eofWithRows)
    /\ ~fs[tmpPath(Last(calls))].exists

\* a merge has completed and appended a row; it had found the partition file
\* and a left-over staging file with a row
InterruptedReclaimedWitness ==
  /\ MergeCompleted
  /\ mergeFs[filePath(Last(calls))].exists
  /\ mergeFs[tmpPath(Last(calls))].exists
  /\ Len(mergeFs[tmpPath(Last(calls))].rows) > 0
  /\ Len(Partition(Last(calls)).rows) > Len(mergeFs[filePath(Last(calls))].rows)

\* C19 -- No partial file at the final path: when a merge has ended with an
\* error or the process was terminated before the rename of the merge, the
\* final path of the partition holds what it held when the merge began; for a
\* month without a partition file the final path is still absent.
NoPartialFile ==
  (pc \in {"panic", "dead"} /\ BeforeRename) =>
    /\ Partition(Last(calls)) = mergeFs[filePath(Last(calls))]
    /\ ~mergeFs[filePath(Last(calls))].exists => ~Partition(Last(calls)).exists

====
